---- MODULE Spec2Model ----
(***************************************************************************)
(* Two-factor-authentication lifecycle of packages/lib/services/auth.ts:   *)
(* setupTwoFactorAuth, enableTwoFactorAuth and disableTwoFactorAuth over    *)
(* the user records of the store.                                          *)
(*                                                                         *)
(* Strings are sequences of one-character strings, so that length checks,  *)
(* hyphen stripping, hex encoding and JSON (de)serialisation are computed. *)
(* null and undefined are the two one-element sequences Null and Undefined *)
(* (no string of characters equals them).                                  *)
(***************************************************************************)
EXTENDS Integers, Sequences, FiniteSets, TLC

VARIABLES
  store,        \* prisma.user: userId -> record, for the users that exist
  key,          \* FORMBRICKS_ENCRYPTION_KEY (Undefined when not configured)
  last,         \* the call that completed last: inputs, record read, result,
                \* accesses and value returned
  prev,         \* summary of the call completed before `last`
  setupLive,    \* history: a setup returned successfully, no successful disable since
  setupStored,  \* history: a setup performed its update, no successful disable since
  calls,        \* calls in flight whose findUnique is done and whose update is not
  retired,      \* history: the setups whose codes a successful disable has cleared
  drawn,        \* history: the random draws that setups in flight have used up
  redeemed,     \* history: the backup codes successful disables were authorised by
  respent,      \* history: the backup codes that authorised a second disable
  verified,     \* history: the secret the code of the last enable update was
                \* verified against, per user
  objects,      \* segment editor: the segment objects allocated, by reference
  userSegment,  \* segment editor: reference of the segment passed as prop
  published,    \* segment editor: the references passed to setUserSegment
  click         \* segment editor: the last click on a connector

vars ==
  <<store, key, last, prev, setupLive, setupStored, calls, retired, drawn,
    redeemed, respent, verified, objects, userSegment, published, click>>

history == <<retired, drawn, redeemed, respent, verified>>

editor == <<objects, userSegment, published, click>>

(***************************************************************************)
(* Bounds of the model                                                     *)
(***************************************************************************)
\* number of distinct outcomes of the random generators that a run can draw
MaxGen == 2
\* number of calls that can be in flight together in the interleaved specification
MaxInFlight == 2
MaxClicks == 3

(***************************************************************************)
(* Program constants                                                       *)
(***************************************************************************)
SecretBytes == 20        \* authenticator.generateSecret(20)
SecretLength == 32       \* secret.length !== 32
BackupCodeCount == 10    \* Array.from(Array(10), ...)
BackupCodeBytes == 5     \* crypto.randomBytes(5)

Null == <<"null">>
Undefined == <<"undefined">>

\* JavaScript truthiness of a string | null | undefined
Truthy(s) == s # Null /\ s # Undefined /\ s # <<>>

UserIds == {"u1", "u2"}

(***************************************************************************)
(* Library functions the handlers call                                     *)
(***************************************************************************)
Base32Alphabet == <<"A", "B", "C", "D", "E", "F", "G", "H">>
HexDigits == <<"0", "1", "2", "3", "4", "5", "6", "7",
               "8", "9", "a", "b", "c", "d", "e", "f">>
DecDigits == <<"0", "1", "2", "3", "4", "5", "6", "7", "8", "9">>

\* base32 encodes 5 bits per character
Base32Length(nBytes) == (nBytes * 8 + 4) \div 5

\* authenticator.generateSecret(n): the base32 text of n random bytes; draw g of
\* the generator decides the text
generateSecret(nBytes, g) ==
  [i \in 1..Base32Length(nBytes) |-> IF i = 1 THEN Base32Alphabet[g] ELSE "A"]

\* crypto.randomBytes(n) for the i-th backup code of draw g
randomBytes(n, g, i) == [j \in 1..n |-> (17 * g + 29 * i + 7 * j) % 256]

\* Buffer.toString("hex"): two lowercase hexadecimal digits per byte
RECURSIVE toHex(_)
toHex(bytes) ==
  IF bytes = <<>> THEN <<>>
  ELSE <<HexDigits[(Head(bytes) \div 16) + 1], HexDigits[(Head(bytes) % 16) + 1]>>
       \o toHex(Tail(bytes))

\* Array.from(Array(10), () => crypto.randomBytes(5).toString("hex"))
generateBackupCodes(g) ==
  [i \in 1..BackupCodeCount |-> toHex(randomBytes(BackupCodeBytes, g, i))]

\* JSON.stringify of an array of strings (the codes hold no character to escape)
RECURSIVE JSONStringifyItems(_)
JSONStringifyItems(list) ==
  IF list = <<>> THEN <<>>
  ELSE <<"\"">> \o Head(list) \o <<"\"">>
       \o (IF Len(list) > 1 THEN <<",">> ELSE <<>>)
       \o JSONStringifyItems(Tail(list))

JSONStringify(list) == <<"[">> \o JSONStringifyItems(list) \o <<"]">>

\* the first index from i on at which s holds ch, 0 when there is none
RECURSIVE indexOfChar(_, _, _)
indexOfChar(s, ch, i) ==
  IF i > Len(s) THEN 0
  ELSE IF s[i] = ch THEN i
  ELSE indexOfChar(s, ch, i + 1)

\* JSON.parse of the text of an array of strings: the texts between the
\* successive pairs of quotes
RECURSIVE JSONParseFrom(_, _)
JSONParseFrom(s, i) ==
  LET open == indexOfChar(s, "\"", i)
  IN IF open = 0 THEN <<>>
     ELSE LET close == indexOfChar(s, "\"", open + 1)
          IN IF close = 0 THEN <<>>
             ELSE <<SubSeq(s, open + 1, close - 1)>> \o JSONParseFrom(s, close + 1)

JSONParse(s) == JSONParseFrom(s, 1)

\* String.prototype.replaceAll(ch, "")
RECURSIVE replaceAll(_, _)
replaceAll(s, ch) ==
  IF s = <<>> THEN <<>>
  ELSE (IF Head(s) = ch THEN <<>> ELSE <<Head(s)>>) \o replaceAll(Tail(s), ch)

\* Array.prototype.indexOf, 0-based, -1 when absent
RECURSIVE indexOfFrom(_, _, _)
indexOfFrom(list, x, i) ==
  IF i > Len(list) THEN -1
  ELSE IF list[i] = x THEN i - 1
  ELSE indexOfFrom(list, x, i + 1)

indexOf(list, x) == indexOfFrom(list, x, 1)

\* ../crypto symmetricEncrypt: throws without a key; the ciphertext carries the
\* key it was made with
CanEncrypt(k) == Truthy(k)
symmetricEncrypt(text, k) == <<"#">> \o k \o <<":">> \o text

\* ../crypto symmetricDecrypt: the plaintext under the key of the ciphertext,
\* unreadable text under any other key
symmetricDecrypt(cipher, k) ==
  LET n == Len(k) + 2
  IN IF Len(cipher) >= n /\ SubSeq(cipher, 1, n) = <<"#">> \o k \o <<":">>
     THEN SubSeq(cipher, n + 1, Len(cipher))
     ELSE <<"?">>

\* ../auth hashPassword / verifyPassword
hashPassword(password) == <<"$">> \o password
verifyPassword(password, hash) == hash = hashPassword(password)

\* the six-digit token of a secret in the current time step
totpToken(secret) ==
  LET first == IF secret = <<>> THEN "A" ELSE Head(secret)
      n == CHOOSE i \in 1..Len(Base32Alphabet) : Base32Alphabet[i] = first
  IN <<"0", "0", "0", "0", "0", DecDigits[n + 1]>>

\* ../totp totpAuthenticatorCheck(token, secret)
totpAuthenticatorCheck(token, secret) ==
  /\ secret # <<>>
  /\ Head(secret) \in {Base32Alphabet[i] : i \in 1..Len(Base32Alphabet)}
  /\ token = totpToken(secret)

\* encodeURIComponent, on the characters user names and e-mail addresses hold
RECURSIVE encodeURIComponent(_)
encodeURIComponent(s) ==
  IF s = <<>> THEN <<>>
  ELSE (IF Head(s) = "@" THEN <<"%", "4", "0">> ELSE <<Head(s)>>)
       \o encodeURIComponent(Tail(s))

RECURSIVE decodeURIComponent(_)
decodeURIComponent(s) ==
  IF s = <<>> THEN <<>>
  ELSE IF Len(s) >= 3 /\ SubSeq(s, 1, 3) = <<"%", "4", "0">>
    THEN <<"@">> \o decodeURIComponent(SubSeq(s, 4, Len(s)))
  ELSE <<Head(s)>> \o decodeURIComponent(Tail(s))

KeyUriScheme == <<"o", "t", "p", "a", "u", "t", "h", ":", "/", "/", "t", "o", "t", "p", "/">>
KeyUriSecret == <<"?", "s", "e", "c", "r", "e", "t", "=">>
KeyUriOptions ==
  <<"&", "p", "e", "r", "i", "o", "d", "=", "3", "0", "&", "d", "i", "g", "i", "t", "s", "=", "6">>
  \o <<"&", "a", "l", "g", "o", "r", "i", "t", "h", "m", "=", "S", "H", "A", "1", "&", "i", "s", "s", "u", "e", "r", "=">>

\* authenticator.keyuri(accountName, issuer, secret)
keyuri(accountName, issuer, secret) ==
  KeyUriScheme \o encodeURIComponent(issuer) \o <<":">>
    \o encodeURIComponent(accountName) \o KeyUriSecret \o secret
    \o KeyUriOptions \o encodeURIComponent(issuer)

\* the parts of a key URI: issuer, account label and secret
keyUriIssuer(uri) ==
  decodeURIComponent(
    SubSeq(uri, Len(KeyUriScheme) + 1,
           indexOfChar(uri, ":", Len(KeyUriScheme) + 1) - 1))
keyUriLabel(uri) ==
  decodeURIComponent(
    SubSeq(uri, indexOfChar(uri, ":", Len(KeyUriScheme) + 1) + 1,
           indexOfChar(uri, "?", 1) - 1))
keyUriSecretOf(uri) ==
  SubSeq(uri, indexOfChar(uri, "?", 1) + Len(KeyUriSecret),
         indexOfChar(uri, "&", 1) - 1)

\* qrcode.toDataURL(text): the image of the text, as a data URI
toDataURL(text) == <<"d", "a", "t", "a", ":">> \o text

Formbricks == <<"F", "o", "r", "m", "b", "r", "i", "c", "k", "s">>

\* ../profile/service getProfileCacheTag
getProfileCacheTag(userId) == <<"profiles", userId>>

(***************************************************************************)
(* The user store                                                          *)
(***************************************************************************)
\* what findUnique yields for an id no user has
NoUser ==
  [password |-> Null, identityProvider |-> "none", twoFactorEnabled |-> FALSE,
   twoFactorSecret |-> Null, backupCodes |-> Null, email |-> <<>>, name |-> Null]

\* prisma.user.findUnique({ where: { id: userId } })
findUnique(st, userId) ==
  IF userId \in DOMAIN st
  THEN [found |-> TRUE, user |-> st[userId]]
  ELSE [found |-> FALSE, user |-> NoUser]

\* prisma.user.update({ where: { id: userId }, data }): the fields of data
\* replace those of the record, the other fields stay
update(st, userId, data) ==
  [u \in DOMAIN st |->
     IF u = userId
     THEN [fld \in DOMAIN st[u] |->
             IF fld \in DOMAIN data THEN data[fld] ELSE st[u][fld]]
     ELSE st[u]]

RECURSIVE updateAll(_, _, _)
updateAll(st, userId, writes) ==
  IF writes = <<>> THEN st
  ELSE updateAll(update(st, userId, Head(writes)), userId, Tail(writes))

(***************************************************************************)
(* What a call returns                                                     *)
(***************************************************************************)
\* a call that throws returns nothing
NothingReturned ==
  [secret |-> <<>>, keyUri |-> <<>>, dataUri |-> <<>>, backupCodes |-> <<>>,
   message |-> ""]

Message(text) == [NothingReturned EXCEPT !.message = text]

\* user.id.toString()
idToString(userId) == IF userId = "u1" THEN <<"u", "1">> ELSE <<"u", "2">>

(***************************************************************************)
(* setupTwoFactorAuth                                                      *)
(***************************************************************************)
\* setupAccountName that prefers the name to the e-mail address
setupAccountName_nameFirst(user, userId) ==
  IF user.name # <<>> /\ user.name # Null THEN user.name
  ELSE IF user.email # <<>> /\ user.email # Null THEN user.email
  ELSE idToString(userId)

\* user.email || user.name || user.id.toString()
setupAccountName(user, userId) ==
  IF user.email # <<>> /\ user.email # Null THEN user.email
  ELSE IF user.name # <<>> /\ user.name # Null THEN user.name
  ELSE idToString(userId)

\* what setup returns once the QR image is rendered
setupReturned(user, userId, secret, backupCodes) ==
  [secret |-> secret,
   keyUri |-> keyuri(setupAccountName(user, userId), Formbricks, secret),
   dataUri |-> toDataURL(keyuri(setupAccountName(user, userId), Formbricks, secret)),
   backupCodes |-> backupCodes,
   message |-> ""]

\* setupChecks with the guard on the identity provider before the one on the password
setupChecks_providerFirst(f, password) ==
  IF ~f.found THEN "User not found"
  ELSE IF f.user.identityProvider # "email" THEN "Third party login is already enabled"
  ELSE IF ~Truthy(f.user.password) THEN "User does not have a password set"
  ELSE IF ~verifyPassword(password, f.user.password) THEN "Incorrect password"
  ELSE "pass"

\* the guards of setupTwoFactorAuth on the record read: the error thrown, or "pass"
setupChecks(f, password) ==
  IF ~f.found THEN "User not found"
  ELSE IF ~Truthy(f.user.password) THEN "User does not have a password set"
  ELSE IF f.user.identityProvider # "email" THEN "Third party login is already enabled"
  ELSE IF ~verifyPassword(password, f.user.password) THEN "Incorrect password"
  ELSE "pass"

\* setupData that stores the secret as backup codes and the codes as secret
setupData_swapsFields(secret, backupCodes, k) ==
  [backupCodes |-> symmetricEncrypt(secret, k),
   twoFactorEnabled |-> FALSE,
   twoFactorSecret |-> symmetricEncrypt(JSONStringify(backupCodes), k)]

\* setupData that leaves twoFactorEnabled as it is
setupData_keepsEnabled(secret, backupCodes, k) ==
  [backupCodes |-> symmetricEncrypt(JSONStringify(backupCodes), k),
   twoFactorSecret |-> symmetricEncrypt(secret, k)]

\* setupData that enables at once
setupData_enables(secret, backupCodes, k) ==
  [backupCodes |-> symmetricEncrypt(JSONStringify(backupCodes), k),
   twoFactorEnabled |-> TRUE,
   twoFactorSecret |-> symmetricEncrypt(secret, k)]

\* the data of setup's update
setupData(secret, backupCodes, k) ==
  [backupCodes |-> symmetricEncrypt(JSONStringify(backupCodes), k),
   twoFactorEnabled |-> FALSE,
   twoFactorSecret |-> symmetricEncrypt(secret, k)]

\* setupRun that makes its update before the password is verified
setupRun_updatesBeforePasswordCheck(f, userId, password, g, qrOk, k) ==
  LET secret == generateSecret(SecretBytes, g)
      backupCodes == generateBackupCodes(g)
      chk == setupChecks(f, password)
  IN IF chk \notin {"pass", "Incorrect password"}
     THEN [result |-> chk, writes |-> <<>>, accesses |-> <<<<"findUnique", userId>>>>,
           returned |-> NothingReturned]
     ELSE IF ~CanEncrypt(k)
     THEN [result |-> "symmetricEncrypt failed", writes |-> <<>>,
           accesses |-> <<<<"findUnique", userId>>>>, returned |-> NothingReturned]
     ELSE [result |-> IF chk # "pass" THEN chk
                      ELSE IF qrOk THEN "ok" ELSE "qrcode.toDataURL failed",
           writes |-> <<setupData(secret, backupCodes, k)>>,
           accesses |-> <<<<"findUnique", userId>>, <<"update", userId>>>>,
           returned |-> IF chk = "pass" /\ qrOk
                        THEN setupReturned(f.user, userId, secret, backupCodes)
                        ELSE NothingReturned]

\* one run of setupTwoFactorAuth on the record read: its result ("ok" or the error
\* thrown), the updates it performs and its accesses to the collaborators, in order
setupRun(f, userId, password, g, qrOk, k) ==
  LET secret == generateSecret(SecretBytes, g)
      backupCodes == generateBackupCodes(g)
      chk == setupChecks(f, password)
  IN IF chk # "pass"
     THEN [result |-> chk, writes |-> <<>>, accesses |-> <<<<"findUnique", userId>>>>,
           returned |-> NothingReturned]
     ELSE IF ~CanEncrypt(k)
     THEN [result |-> "symmetricEncrypt failed", writes |-> <<>>,
           accesses |-> <<<<"findUnique", userId>>>>, returned |-> NothingReturned]
     ELSE [result |-> IF qrOk THEN "ok" ELSE "qrcode.toDataURL failed",
           writes |-> <<setupData(secret, backupCodes, k)>>,
           accesses |-> <<<<"findUnique", userId>>, <<"update", userId>>>>,
           returned |-> IF chk = "pass" /\ qrOk
                        THEN setupReturned(f.user, userId, secret, backupCodes)
                        ELSE NothingReturned]

(***************************************************************************)
(* enableTwoFactorAuth                                                     *)
(***************************************************************************)
\* enableChecks without the guard on twoFactorEnabled
enableChecks_noEnabledCheck(f, code, k) ==
  IF ~f.found THEN "User not found"
  ELSE IF ~Truthy(f.user.password) THEN "User does not have a password set"
  ELSE IF f.user.identityProvider # "email" THEN "Third party login is already enabled"
  ELSE IF ~Truthy(f.user.twoFactorSecret) THEN "Two factor setup has not been completed"
  ELSE IF ~Truthy(k) THEN "Encryption key not found"
  ELSE IF Len(symmetricDecrypt(f.user.twoFactorSecret, k)) # SecretLength
    THEN "Invalid secret"
  ELSE IF ~totpAuthenticatorCheck(code, symmetricDecrypt(f.user.twoFactorSecret, k))
    THEN "Invalid code"
  ELSE "pass"

\* enableChecks without the guard on the length of the decrypted secret
enableChecks_noLengthCheck(f, code, k) ==
  IF ~f.found THEN "User not found"
  ELSE IF ~Truthy(f.user.password) THEN "User does not have a password set"
  ELSE IF f.user.identityProvider # "email" THEN "Third party login is already enabled"
  ELSE IF f.user.twoFactorEnabled THEN "Two factor authentication is already enabled"
  ELSE IF ~Truthy(f.user.twoFactorSecret) THEN "Two factor setup has not been completed"
  ELSE IF ~Truthy(k) THEN "Encryption key not found"
  ELSE IF ~totpAuthenticatorCheck(code, symmetricDecrypt(f.user.twoFactorSecret, k))
    THEN "Invalid code"
  ELSE "pass"

\* the guards of enableTwoFactorAuth on the record read: the error thrown, or "pass"
enableChecks(f, code, k) ==
  IF ~f.found THEN "User not found"
  ELSE IF ~Truthy(f.user.password) THEN "User does not have a password set"
  ELSE IF f.user.identityProvider # "email" THEN "Third party login is already enabled"
  ELSE IF f.user.twoFactorEnabled THEN "Two factor authentication is already enabled"
  ELSE IF ~Truthy(f.user.twoFactorSecret) THEN "Two factor setup has not been completed"
  ELSE IF ~Truthy(k) THEN "Encryption key not found"
  ELSE IF Len(symmetricDecrypt(f.user.twoFactorSecret, k)) # SecretLength
    THEN "Invalid secret"
  ELSE IF ~totpAuthenticatorCheck(code, symmetricDecrypt(f.user.twoFactorSecret, k))
    THEN "Invalid code"
  ELSE "pass"

\* enableData that clears the backup codes as well
enableData_clearsBackupCodes == [twoFactorEnabled |-> TRUE, backupCodes |-> Null]

\* the data of enable's update
enableData == [twoFactorEnabled |-> TRUE]

\* enableRun that does not invalidate the profile cache
enableRun_noRevalidate(f, userId, code, k) ==
  LET chk == enableChecks(f, code, k)
  IN IF chk # "pass"
     THEN [result |-> chk, writes |-> <<>>, accesses |-> <<<<"findUnique", userId>>>>,
           returned |-> NothingReturned]
     ELSE [result |-> "ok", writes |-> <<enableData>>,
           accesses |-> <<<<"findUnique", userId>>, <<"update", userId>>>>,
           returned |-> Message("Two factor authentication enabled")]

\* one run of enableTwoFactorAuth on the record read
enableRun(f, userId, code, k) ==
  LET chk == enableChecks(f, code, k)
  IN IF chk # "pass"
     THEN [result |-> chk, writes |-> <<>>, accesses |-> <<<<"findUnique", userId>>>>,
           returned |-> NothingReturned]
     ELSE [result |-> "ok", writes |-> <<enableData>>,
           accesses |-> <<<<"findUnique", userId>>, <<"update", userId>>,
                          <<"revalidateTag", getProfileCacheTag(userId)>>>>,
           returned |-> Message("Two factor authentication enabled")]

(***************************************************************************)
(* disableTwoFactorAuth                                                    *)
(***************************************************************************)
\* disableBackupCodeBranch that looks the code up as it was typed
disableBackupCodeBranch_noStrip(f, backupCode, k) ==
  IF ~Truthy(k) THEN "Encryption key not found"
  ELSE IF ~Truthy(f.user.backupCodes) THEN "Missing backup codes"
  ELSE IF indexOf(JSONParse(symmetricDecrypt(f.user.backupCodes, k)), backupCode) = -1
    THEN "Incorrect backup code"
  ELSE "pass"

\* disableBackupCodeBranch that does not look the code up in the list
disableBackupCodeBranch_noMembership(f, backupCode, k) ==
  IF ~Truthy(k) THEN "Encryption key not found"
  ELSE IF ~Truthy(f.user.backupCodes) THEN "Missing backup codes"
  ELSE "pass"

\* the backup-code branch: the error thrown, or "pass"
disableBackupCodeBranch(f, backupCode, k) ==
  IF ~Truthy(k) THEN "Encryption key not found"
  ELSE IF ~Truthy(f.user.backupCodes) THEN "Missing backup codes"
  ELSE IF indexOf(JSONParse(symmetricDecrypt(f.user.backupCodes, k)),
                  replaceAll(backupCode, "-")) = -1
    THEN "Incorrect backup code"
  ELSE "pass"

\* disableTotpBranch without the guard on a missing code
disableTotpBranch_noCodeRequired(f, code, k) ==
  IF ~Truthy(f.user.twoFactorSecret) THEN "Two factor setup has not been completed"
  ELSE IF ~Truthy(k) THEN "Encryption key not found"
  ELSE IF Len(symmetricDecrypt(f.user.twoFactorSecret, k)) # SecretLength
    THEN "Invalid secret"
  ELSE IF ~totpAuthenticatorCheck(code, symmetricDecrypt(f.user.twoFactorSecret, k))
    THEN "Invalid code"
  ELSE "pass"

\* the TOTP branch: the error thrown, or "pass"
disableTotpBranch(f, code, k) ==
  IF ~Truthy(code) THEN "Second factor required"
  ELSE IF ~Truthy(f.user.twoFactorSecret) THEN "Two factor setup has not been completed"
  ELSE IF ~Truthy(k) THEN "Encryption key not found"
  ELSE IF Len(symmetricDecrypt(f.user.twoFactorSecret, k)) # SecretLength
    THEN "Invalid secret"
  ELSE IF ~totpAuthenticatorCheck(code, symmetricDecrypt(f.user.twoFactorSecret, k))
    THEN "Invalid code"
  ELSE "pass"

\* disableChecks without the guard on twoFactorEnabled
disableChecks_noEnabledCheck(f, code, password, backupCode, k) ==
  IF ~f.found THEN "User not found"
  ELSE IF ~Truthy(f.user.password) THEN "User does not have a password set"
  ELSE IF f.user.identityProvider # "email" THEN "Third party login is already enabled"
  ELSE IF ~verifyPassword(password, f.user.password) THEN "Incorrect password"
  ELSE IF Truthy(backupCode)
    THEN disableBackupCodeBranch(f, backupCode, k)
  ELSE disableTotpBranch(f, code, k)

\* disableChecks that takes the TOTP branch whenever a code is presented
disableChecks_codeFirst(f, code, password, backupCode, k) ==
  IF ~f.found THEN "User not found"
  ELSE IF ~Truthy(f.user.password) THEN "User does not have a password set"
  ELSE IF ~f.user.twoFactorEnabled THEN "Two factor authentication is not enabled"
  ELSE IF f.user.identityProvider # "email" THEN "Third party login is already enabled"
  ELSE IF ~verifyPassword(password, f.user.password) THEN "Incorrect password"
  ELSE IF f.user.twoFactorEnabled /\ Truthy(code)
    THEN disableTotpBranch(f, code, k)
  ELSE IF f.user.twoFactorEnabled /\ Truthy(backupCode)
    THEN disableBackupCodeBranch(f, backupCode, k)
  ELSE "Second factor required"

\* disableChecks that asks for a second factor only when one is presented
disableChecks_secondFactorOptional(f, code, password, backupCode, k) ==
  IF ~f.found THEN "User not found"
  ELSE IF ~Truthy(f.user.password) THEN "User does not have a password set"
  ELSE IF ~f.user.twoFactorEnabled THEN "Two factor authentication is not enabled"
  ELSE IF f.user.identityProvider # "email" THEN "Third party login is already enabled"
  ELSE IF ~verifyPassword(password, f.user.password) THEN "Incorrect password"
  ELSE IF f.user.twoFactorEnabled /\ Truthy(backupCode)
    THEN disableBackupCodeBranch(f, backupCode, k)
  ELSE IF f.user.twoFactorEnabled /\ Truthy(code)
    THEN disableTotpBranch(f, code, k)
  ELSE "pass"

\* disableChecks without the verification of the password
disableChecks_noPasswordCheck(f, code, password, backupCode, k) ==
  IF ~f.found THEN "User not found"
  ELSE IF ~Truthy(f.user.password) THEN "User does not have a password set"
  ELSE IF ~f.user.twoFactorEnabled THEN "Two factor authentication is not enabled"
  ELSE IF f.user.identityProvider # "email" THEN "Third party login is already enabled"
  ELSE IF f.user.twoFactorEnabled /\ Truthy(backupCode)
    THEN disableBackupCodeBranch(f, backupCode, k)
  ELSE IF f.user.twoFactorEnabled
    THEN disableTotpBranch(f, code, k)
  ELSE "pass"

\* the guards of disableTwoFactorAuth on the record read: the error thrown, or "pass"
disableChecks(f, code, password, backupCode, k) ==
  IF ~f.found THEN "User not found"
  ELSE IF ~Truthy(f.user.password) THEN "User does not have a password set"
  ELSE IF ~f.user.twoFactorEnabled THEN "Two factor authentication is not enabled"
  ELSE IF f.user.identityProvider # "email" THEN "Third party login is already enabled"
  ELSE IF ~verifyPassword(password, f.user.password) THEN "Incorrect password"
  ELSE IF f.user.twoFactorEnabled /\ Truthy(backupCode)
    THEN disableBackupCodeBranch(f, backupCode, k)
  ELSE IF f.user.twoFactorEnabled
    THEN disableTotpBranch(f, code, k)
  ELSE "pass"

\* disableData that leaves twoFactorEnabled as it is
disableData_keepsEnabled == [backupCodes |-> Null, twoFactorSecret |-> Null]

\* disableData that leaves the backup codes stored
disableData_keepsBackupCodes ==
  [twoFactorEnabled |-> FALSE, twoFactorSecret |-> Null]

\* the data of disable's update
disableData ==
  [backupCodes |-> Null, twoFactorEnabled |-> FALSE, twoFactorSecret |-> Null]

\* one run of disableTwoFactorAuth on the record read
disableRun(f, userId, code, password, backupCode, k) ==
  LET chk == disableChecks(f, code, password, backupCode, k)
  IN IF chk # "pass"
     THEN [result |-> chk, writes |-> <<>>, accesses |-> <<<<"findUnique", userId>>>>,
           returned |-> NothingReturned]
     ELSE [result |-> "ok", writes |-> <<disableData>>,
           accesses |-> <<<<"findUnique", userId>>, <<"update", userId>>,
                          <<"revalidateTag", getProfileCacheTag(userId)>>>>,
           returned |-> Message("Two factor authentication disabled")]

(***************************************************************************)
(* Segment filter editor: SegmentFilterItemConnector                        *)
(***************************************************************************)
\* the connector of the first item of a group, shown as "Where"
NoConnector == "null"

\* an item of a filter group: a filter, or a group of items
Filter(id, connector) ==
  [id |-> id, connector |-> connector, isFilter |-> TRUE, group |-> <<>>]
Group(id, connector, items) ==
  [id |-> id, connector |-> connector, isFilter |-> FALSE, group |-> items]

\* toggleFilterConnector(group, filterId, newConnectorValue): the connector of
\* the filter with that id becomes the new value, in the group and its groups
RECURSIVE toggleFilterConnector(_, _, _)
toggleFilterConnector(group, filterId, newConnectorValue) ==
  [i \in 1..Len(group) |->
     IF group[i].isFilter
     THEN IF group[i].id = filterId
          THEN [group[i] EXCEPT !.connector = newConnectorValue]
          ELSE group[i]
     ELSE [group[i] EXCEPT
             !.group = toggleFilterConnector(@, filterId, newConnectorValue)]]

\* the filters of a group and of its groups, as id and connector
RECURSIVE filtersOf(_)
filtersOf(group) ==
  UNION {IF group[i].isFilter
         THEN {<<group[i].id, group[i].connector>>}
         ELSE filtersOf(group[i].group) : i \in 1..Len(group)}

\* the connector prop of the filter: the connector of its item
connectorOf(segment, filterId) ==
  (CHOOSE fc \in filtersOf(segment.filters) : fc[1] = filterId)[2]

\* onConnectorChange that passes "or" on, whatever the connector
newConnector_alwaysOr(connector) == "or"

\* the connector onConnectorChange passes on: "or" for "and", else "and"
newConnector(connector) == IF connector = "and" THEN "or" ELSE "and"

\* updateLocalSurvey that changes the segment passed as prop as well
updateLocalSurvey_inPlace(objs, ref, filterId, connector) ==
  [n \in 1..(Len(objs) + 1) |->
     IF n \in {ref, Len(objs) + 1}
     THEN [filters |-> toggleFilterConnector(objs[ref].filters, filterId, connector)]
     ELSE objs[n]]

\* updateLocalSurvey: the objects after structuredClone(userSegment) has
\* allocated the copy and toggleFilterConnector has changed the copy
updateLocalSurvey(objs, ref, filterId, connector) ==
  Append(objs,
         [filters |-> toggleFilterConnector(objs[ref].filters, filterId, connector)])

NoClick == [n |-> 0, filterId |-> "none", connector |-> NoConnector, prop |-> 0,
            before |-> <<>>, publishedBefore |-> 0,
            previous |-> [filterId |-> "none", connector |-> NoConnector]]

\* no segment is being edited
EditorClosed ==
  /\ objects = <<>>
  /\ userSegment = 0
  /\ published = <<>>
  /\ click = NoClick

(***************************************************************************)
(* Inputs of the calls                                                     *)
(***************************************************************************)
Gens == 1..MaxGen

Password1 == <<"p", "w", "1">>
Password2 == <<"p", "w", "2">>
Passwords == {Password1, Password2}

EncryptionKey == <<"k", "1">>

WrongCode == <<"9", "9", "9", "9", "9", "9">>
Codes ==
  {<<>>, WrongCode} \cup {totpToken(generateSecret(SecretBytes, g)) : g \in Gens}

\* a code written in groups of two characters: ab-cd-...
RECURSIVE hyphenate(_)
hyphenate(s) ==
  IF Len(s) <= 2 THEN s
  ELSE <<s[1], s[2], "-">> \o hyphenate(SubSeq(s, 3, Len(s)))

WrongBackupCode == <<"0", "0", "0", "0", "0", "0", "0", "0", "0", "0">>
BackupCodeInputs ==
  {Undefined, WrongBackupCode} \cup {hyphenate(generateBackupCodes(g)[2]) : g \in Gens}

\* the records account registration creates: no two-factor data yet
Profile == [email |-> <<"a", "@", "b">>, name |-> <<"A", "l">>]
NewRecords ==
  {[password |-> p, identityProvider |-> ip, twoFactorEnabled |-> FALSE,
    twoFactorSecret |-> Null, backupCodes |-> Null,
    email |-> Profile.email, name |-> Profile.name] :
      p \in {Null, hashPassword(Password1)}, ip \in {"email", "google"}}

\* a second user, who signs in through a third party
Bystander ==
  [password |-> hashPassword(Password2), identityProvider |-> "google",
   twoFactorEnabled |-> FALSE, twoFactorSecret |-> Null, backupCodes |-> Null,
   email |-> <<"c", "@", "d">>, name |-> <<"C", "y">>]

(***************************************************************************)
(* State after construction                                                *)
(***************************************************************************)
NoCall ==
  [op |-> "none", userId |-> "none", password |-> Undefined, code |-> Undefined,
   backupCode |-> Undefined, gen |-> 0, qrOk |-> TRUE,
   read |-> [found |-> FALSE, user |-> NoUser], result |-> "none",
   accesses |-> <<>>, returned |-> NothingReturned]

NoPrev == [op |-> "none", userId |-> "none", code |-> Undefined]

\* no backup code authorised the call
NoRedemption == [gen |-> 0, code |-> <<>>]

Idle ==
  [op |-> "idle", userId |-> "none", writes |-> <<>>, redeems |-> NoRedemption,
   verifies |-> <<>>]

Init ==
  /\ \E r \in NewRecords :
       store \in {[u \in {"u1"} |-> r],
                  [u \in UserIds |-> IF u = "u1" THEN r ELSE Bystander]}
  /\ key \in {Undefined, EncryptionKey}
  /\ last = NoCall
  /\ prev = NoPrev
  /\ setupLive = [u \in UserIds |-> FALSE]
  /\ setupStored = [u \in UserIds |-> FALSE]
  /\ calls = [i \in 1..MaxInFlight |-> Idle]
  /\ retired = {}
  /\ drawn = {}
  /\ redeemed = {}
  /\ respent = {}
  /\ verified = [u \in UserIds |-> <<>>]
  /\ EditorClosed

(***************************************************************************)
(* The calls, each executed atomically                                     *)
(***************************************************************************)
\* what `prev` keeps of the call that completed: a successful enable, or nothing
Summary(call) ==
  IF call.op = "enable" /\ call.result = "ok"
  THEN [op |-> "enable", userId |-> call.userId, code |-> call.code]
  ELSE NoPrev

\* the bookkeeping every completed call leaves behind
Complete(call, run) ==
  /\ store' = updateAll(store, call.userId, run.writes)
  /\ last' = [call EXCEPT !.result = run.result, !.accesses = run.accesses,
                           !.returned = run.returned]
  /\ prev' = Summary(last)
  /\ setupLive' =
       [u \in UserIds |->
          IF u # call.userId THEN setupLive[u]
          ELSE IF call.op = "setup" /\ run.result = "ok" THEN TRUE
          ELSE IF call.op = "disable" /\ run.result = "ok" THEN FALSE
          ELSE setupLive[u]]
  /\ setupStored' =
       [u \in UserIds |->
          IF u # call.userId THEN setupStored[u]
          ELSE IF call.op = "setup" /\ run.writes # <<>> THEN TRUE
          ELSE IF call.op = "disable" /\ run.writes # <<>> THEN FALSE
          ELSE setupStored[u]]

setupTwoFactorAuth(userId, password, g, qrOk) ==
  LET f == findUnique(store, userId)
      call == [NoCall EXCEPT !.op = "setup", !.userId = userId,
                             !.password = password, !.gen = g, !.qrOk = qrOk,
                             !.read = f]
  IN /\ Complete(call, setupRun(f, userId, password, g, qrOk, key))
     /\ UNCHANGED <<key, calls, history, editor>>

enableTwoFactorAuth(userId, code) ==
  LET f == findUnique(store, userId)
      call == [NoCall EXCEPT !.op = "enable", !.userId = userId, !.code = code,
                             !.read = f]
  IN /\ Complete(call, enableRun(f, userId, code, key))
     /\ UNCHANGED <<key, calls, history, editor>>

disableTwoFactorAuth(userId, code, password, backupCode) ==
  LET f == findUnique(store, userId)
      call == [NoCall EXCEPT !.op = "disable", !.userId = userId, !.code = code,
                             !.password = password, !.backupCode = backupCode,
                             !.read = f]
  IN /\ Complete(call, disableRun(f, userId, code, password, backupCode, key))
     /\ UNCHANGED <<key, calls, history, editor>>

Next ==
  \/ \E userId \in UserIds, password \in Passwords, g \in Gens, qrOk \in BOOLEAN :
       setupTwoFactorAuth(userId, password, g, qrOk)
  \/ \E userId \in UserIds, code \in Codes :
       enableTwoFactorAuth(userId, code)
  \/ \E userId \in UserIds, code \in Codes, password \in Passwords,
        backupCode \in BackupCodeInputs :
       disableTwoFactorAuth(userId, code, password, backupCode)

Spec == Init /\ [][Next]_vars

(***************************************************************************)
(* The calls interleaved: the findUnique of a call and its update are       *)
(* separate atomic steps, and the store applies the updates in the order    *)
(* they arrive.  The guards of a call read only its own findUnique result   *)
(* and its arguments, so a call that throws before its update has no        *)
(* further step; a call that passes them waits in `calls` with the update   *)
(* it is about to make.                                                     *)
(***************************************************************************)
InFlight(op, userId, run, redeems, verifies) ==
  [op |-> op, userId |-> userId, writes |-> run.writes, redeems |-> redeems,
   verifies |-> verifies]

\* the secret an enable verifies its code against
verification(f, k) ==
  IF f.found /\ Truthy(f.user.twoFactorSecret) /\ Truthy(k)
  THEN symmetricDecrypt(f.user.twoFactorSecret, k)
  ELSE <<>>

\* the setups whose backup codes the record holds (setups are told apart by
\* their random draw)
issuedBy(user, k) ==
  {g \in Gens : user.backupCodes = symmetricEncrypt(JSONStringify(generateBackupCodes(g)), k)}

\* the backup code a disable presents to the backup-code branch, with the setup
\* that issued the list it is looked up in
redemption(f, backupCode, k) ==
  IF f.found /\ Truthy(backupCode) /\ issuedBy(f.user, k) # {}
  THEN [gen |-> CHOOSE g \in issuedBy(f.user, k) : TRUE,
        code |-> replaceAll(backupCode, "-")]
  ELSE NoRedemption

\* the slot a new call takes: the first idle one
FreeSlot(i) ==
  /\ calls[i] = Idle
  /\ \A j \in 1..(i - 1) : calls[j] # Idle

\* a call whose guards passed waits in slot i; a call that threw is over
admit(i, op, userId, run, redeems, verifies) ==
  /\ calls' = IF run.writes = <<>> THEN calls
              ELSE [calls EXCEPT ![i] = InFlight(op, userId, run, redeems, verifies)]
  /\ UNCHANGED <<store, key, last, prev, setupLive, setupStored, retired,
                 redeemed, respent, verified, editor>>

\* the steps of the calls up to their update
\* (two draws of the random generator never agree: a draw a setup has stored,
\* or is about to store, is not drawn again)
setupRead(i, userId, password, g, qrOk) ==
  LET run == setupRun(findUnique(store, userId), userId, password, g, qrOk, key)
  IN /\ FreeSlot(i)
     /\ g \notin drawn
     /\ admit(i, "setup", userId, run, NoRedemption, <<>>)
     /\ drawn' = IF run.writes = <<>> THEN drawn ELSE drawn \cup {g}

enableRead(i, userId, code) ==
  LET f == findUnique(store, userId)
      run == enableRun(f, userId, code, key)
  IN /\ FreeSlot(i)
     /\ admit(i, "enable", userId, run, NoRedemption, verification(f, key))
     /\ UNCHANGED drawn

disableRead(i, userId, code, password, backupCode) ==
  LET f == findUnique(store, userId)
      run == disableRun(f, userId, code, password, backupCode, key)
  IN /\ FreeSlot(i)
     /\ admit(i, "disable", userId, run, redemption(f, backupCode, key), <<>>)
     /\ UNCHANGED drawn

\* the update of a call in flight, and its return
callUpdate(i) ==
  /\ calls[i] # Idle
  /\ store' = updateAll(store, calls[i].userId, calls[i].writes)
  /\ setupStored' =
       [setupStored EXCEPT ![calls[i].userId] = (calls[i].op = "setup") \/
                                                  (calls[i].op = "enable" /\ @)]
  /\ calls' = [calls EXCEPT ![i] = Idle]
  /\ redeemed' = IF calls[i].redeems = NoRedemption THEN redeemed
                 ELSE redeemed \cup {calls[i].redeems}
  /\ respent' = IF calls[i].redeems \in redeemed
                THEN respent \cup {calls[i].redeems} ELSE respent
  /\ verified' = IF calls[i].op = "enable"
                 THEN [verified EXCEPT ![calls[i].userId] = calls[i].verifies]
                 ELSE verified
  /\ UNCHANGED <<key, last, prev, setupLive, retired, drawn, editor>>

\* (a call given a wrong password throws before its update and takes no step
\* here: the calls are given the password of the account)
NextInterleaved ==
  \/ \E i \in 1..MaxInFlight, userId \in UserIds, password \in {Password1},
        g \in Gens, qrOk \in BOOLEAN :
       setupRead(i, userId, password, g, qrOk)
  \/ \E i \in 1..MaxInFlight, userId \in UserIds, code \in Codes :
       enableRead(i, userId, code)
  \/ \E i \in 1..MaxInFlight, userId \in UserIds, code \in Codes,
        password \in {Password1}, backupCode \in BackupCodeInputs :
       \* a disable that presents a backup code never looks at its code
       \* (auth.ts 164 sqq.), so it is given with an empty one
       /\ (Truthy(backupCode) => code = <<>>)
       /\ disableRead(i, userId, code, password, backupCode)
  \/ \E i \in 1..MaxInFlight : callUpdate(i)

\* both users have a record, and the encryption key is configured
InitInterleaved ==
  /\ Init
  /\ DOMAIN store = UserIds
  /\ key = EncryptionKey

SpecInterleaved == InitInterleaved /\ [][NextInterleaved]_vars

(***************************************************************************)
(* The life of one account: the calls of one user, executed atomically,     *)
(* with the history of the setups whose codes a disable has cleared.        *)
(***************************************************************************)
InitLifecycle ==
  /\ store = [u \in {"u1"} |->
               [password |-> hashPassword(Password1), identityProvider |-> "email",
                twoFactorEnabled |-> FALSE, twoFactorSecret |-> Null,
                backupCodes |-> Null, email |-> Profile.email,
                name |-> Profile.name]]
  /\ key = EncryptionKey
  /\ last = NoCall
  /\ prev = NoPrev
  /\ setupLive = [u \in UserIds |-> FALSE]
  /\ setupStored = [u \in UserIds |-> FALSE]
  /\ calls = [i \in 1..MaxInFlight |-> Idle]
  /\ retired = {}
  /\ drawn = {}
  /\ redeemed = {}
  /\ respent = {}
  /\ verified = [u \in UserIds |-> <<>>]
  /\ EditorClosed

setupOfAccount(password, g, qrOk) ==
  /\ setupTwoFactorAuth("u1", password, g, qrOk)

enableOfAccount(code) ==
  /\ enableTwoFactorAuth("u1", code)

\* a successful disable retires the setup whose codes it clears
disableOfAccount(code, password, backupCode) ==
  LET f == findUnique(store, "u1")
      call == [NoCall EXCEPT !.op = "disable", !.userId = "u1", !.code = code,
                             !.password = password, !.backupCode = backupCode,
                             !.read = f]
      run == disableRun(f, "u1", code, password, backupCode, key)
  IN /\ Complete(call, run)
     /\ retired' = IF run.writes = <<>> THEN retired
                   ELSE retired \cup issuedBy(f.user, key)
     /\ UNCHANGED <<key, calls, drawn, redeemed, respent, verified, editor>>

NextLifecycle ==
  \/ \E password \in Passwords, g \in Gens, qrOk \in BOOLEAN :
       setupOfAccount(password, g, qrOk)
  \/ \E code \in Codes : enableOfAccount(code)
  \/ \E code \in Codes, password \in Passwords, backupCode \in BackupCodeInputs :
       disableOfAccount(code, password, backupCode)

SpecLifecycle == InitLifecycle /\ [][NextLifecycle]_vars

(***************************************************************************)
(* The backup-code branch of disable, on an enabled record, over the ways   *)
(* of writing a backup code.                                                *)
(***************************************************************************)
insertAt(s, n, ch) == SubSeq(s, 1, n) \o <<ch>> \o SubSeq(s, n + 1, Len(s))

\* String.prototype.toUpperCase on hex digits
toUpperCase(s) ==
  [n \in 1..Len(s) |->
     CASE s[n] = "a" -> "A" [] s[n] = "b" -> "B" [] s[n] = "c" -> "C"
       [] s[n] = "d" -> "D" [] s[n] = "e" -> "E" [] s[n] = "f" -> "F"
       [] OTHER -> s[n]]

\* ways of writing the code c: with hyphens anywhere, and with what is not a
\* hyphen (a space, another letter case, a character less or more)
Spellings(c) ==
  {c, hyphenate(c), <<"-", "-">> \o c \o <<"-">>, toUpperCase(hyphenate(c)),
   SubSeq(c, 1, Len(c) - 1), c \o <<"0">>}
  \cup {insertAt(c, n, "-") : n \in 0..Len(c)}
  \cup {insertAt(c, n, " ") : n \in {0, 5, Len(c)}}

BackupCodeSpellings ==
  {Undefined, <<>>, <<"-">>, WrongBackupCode}
  \cup UNION {Spellings(generateBackupCodes(g)[n]) :
                g \in Gens, n \in {1, BackupCodeCount}}

\* an enabled record, as setup and enable leave it
EnabledRecord(g) ==
  [password |-> hashPassword(Password1), identityProvider |-> "email",
   twoFactorEnabled |-> TRUE,
   twoFactorSecret |-> symmetricEncrypt(generateSecret(SecretBytes, g), EncryptionKey),
   backupCodes |->
     symmetricEncrypt(JSONStringify(generateBackupCodes(g)), EncryptionKey),
   email |-> Profile.email, name |-> Profile.name]

InitBackupCode ==
  /\ \E g \in Gens : store = [u \in {"u1"} |-> EnabledRecord(g)]
  /\ key = EncryptionKey
  /\ last = NoCall
  /\ prev = NoPrev
  /\ setupLive = [u \in UserIds |-> u = "u1"]
  /\ setupStored = [u \in UserIds |-> u = "u1"]
  /\ calls = [i \in 1..MaxInFlight |-> Idle]
  /\ retired = {}
  /\ drawn = {}
  /\ redeemed = {}
  /\ respent = {}
  /\ verified = [u \in UserIds |-> <<>>]
  /\ EditorClosed

NextBackupCode ==
  \/ \E code \in {<<>>, WrongCode}, backupCode \in BackupCodeSpellings :
       disableTwoFactorAuth("u1", code, Password1, backupCode)
  \/ \E code \in Codes, backupCode \in {Undefined, <<>>, WrongBackupCode} :
       disableTwoFactorAuth("u1", code, Password1, backupCode)

SpecBackupCode == InitBackupCode /\ [][NextBackupCode]_vars

(***************************************************************************)
(* The calls, executed atomically, from any record the store may hold when  *)
(* the service starts: records with two-factor data, records whose stored   *)
(* secret does not decrypt to 32 characters, users without e-mail or name.  *)
(***************************************************************************)
\* a stored secret that decrypts to fewer than 32 characters
ShortSecret == <<"J", "B", "S", "W", "Y">>

Eligible ==
  [password |-> hashPassword(Password1), identityProvider |-> "email",
   twoFactorEnabled |-> FALSE, twoFactorSecret |-> Null, backupCodes |-> Null,
   email |-> Profile.email, name |-> Profile.name]

StoredRecords ==
  NewRecords
  \cup {[Eligible EXCEPT !.email = <<>>],
        [Eligible EXCEPT !.email = <<>>, !.name = Null],
        [Eligible EXCEPT !.email = <<>>, !.name = <<>>]}
  \cup {[EnabledRecord(1) EXCEPT !.twoFactorEnabled = e, !.twoFactorSecret = sec] :
          e \in BOOLEAN,
          sec \in {symmetricEncrypt(generateSecret(SecretBytes, 1), EncryptionKey),
                   symmetricEncrypt(ShortSecret, EncryptionKey)}}

InitStored ==
  /\ \E r \in StoredRecords : store = [u \in {"u1"} |-> r]
  /\ key \in {Undefined, EncryptionKey}
  /\ last = NoCall
  /\ prev = NoPrev
  /\ setupLive = [u \in UserIds |-> FALSE]
  /\ setupStored = [u \in UserIds |-> FALSE]
  /\ calls = [i \in 1..MaxInFlight |-> Idle]
  /\ retired = {}
  /\ drawn = {}
  /\ redeemed = {}
  /\ respent = {}
  /\ verified = [u \in UserIds |-> <<>>]
  /\ EditorClosed

SpecStored == InitStored /\ [][Next]_vars

(***************************************************************************)
(* The segment filter editor: clicks on the connectors of the filters of a  *)
(* segment.  The editor holds the segment last published and renders each   *)
(* filter with the connector of its item.                                   *)
(***************************************************************************)
FilterIds == {"f1", "f2", "f3", "f4"}

\* segments: a first filter, a second filter, and a group of two filters
Segments ==
  {[filters |-> <<Filter("f1", NoConnector), Filter("f2", c2),
                  Group("g1", c3, <<Filter("f3", NoConnector), Filter("f4", c4)>>)>>] :
     c2 \in {"and", "or"}, c3 \in {"and", "or"}, c4 \in {"and", "or"}}

InitEditor ==
  /\ store = [u \in {"u1"} |-> Eligible]
  /\ key = EncryptionKey
  /\ last = NoCall
  /\ prev = NoPrev
  /\ setupLive = [u \in UserIds |-> FALSE]
  /\ setupStored = [u \in UserIds |-> FALSE]
  /\ calls = [i \in 1..MaxInFlight |-> Idle]
  /\ retired = {}
  /\ drawn = {}
  /\ redeemed = {}
  /\ respent = {}
  /\ verified = [u \in UserIds |-> <<>>]
  /\ \E segment \in Segments : objects = <<segment>>
  /\ userSegment = 1
  /\ published = <<>>
  /\ click = NoClick

\* a click on the connector of the filter: onConnectorChange, and the editor
\* rendered again with the segment published
onConnectorChange(filterId) ==
  LET connector == connectorOf(objects[userSegment], filterId)
      updated == updateLocalSurvey(objects, userSegment, filterId,
                                   newConnector(connector))
  IN /\ click.n < MaxClicks
     /\ click' = [n |-> click.n + 1, filterId |-> filterId, connector |-> connector,
                  prop |-> userSegment, before |-> objects,
                  publishedBefore |-> Len(published),
                  previous |-> [filterId |-> click.filterId,
                                connector |-> click.connector]]
     /\ IF connector = NoConnector
        THEN UNCHANGED <<objects, userSegment, published>>
        ELSE /\ objects' = updated
             /\ published' = Append(published, Len(updated))
             /\ userSegment' = Len(updated)
     /\ UNCHANGED <<store, key, last, prev, setupLive, setupStored, calls, history>>

NextEditor == \E filterId \in FilterIds : onConnectorChange(filterId)

SpecEditor == InitEditor /\ [][NextEditor]_vars

(***************************************************************************)
(* Vocabulary of the properties                                            *)
(***************************************************************************)
\* the record of the user the last call was about, as the store holds it now
Target == store[last.userId]
Called(op) == last.op = op /\ last.userId \in DOMAIN store

\* positions of the accesses of a kind in the last call
Positions(kind) == {n \in 1..Len(last.accesses) : last.accesses[n][1] = kind}
StoreAccesses == Positions("findUnique") \cup Positions("update")

\* the last call invalidated the profile cache of its user, after its update
InvalidatedAfterUpdate ==
  \E n \in Positions("revalidateTag") :
    /\ last.accesses[n] = <<"revalidateTag", getProfileCacheTag(last.userId)>>
    /\ \E m \in Positions("update") : m < n

\* the errors thrown by the guards of the three calls
CheckErrors ==
  {"User not found", "User does not have a password set",
   "Third party login is already enabled", "Incorrect password",
   "Two factor authentication is already enabled",
   "Two factor authentication is not enabled",
   "Two factor setup has not been completed", "Encryption key not found",
   "symmetricEncrypt failed", "Invalid secret", "Invalid code",
   "Missing backup codes", "Incorrect backup code", "Second factor required"}

\* the password of the last call does not match the hash of the record it read
WrongPasswordGiven ==
  /\ last.read.found
  /\ Truthy(last.read.user.password)
  /\ ~verifyPassword(last.password, last.read.user.password)

\* the record the last call read is in PendingSetup
ReadPendingSetup ==
  /\ last.read.found
  /\ Truthy(last.read.user.password)
  /\ last.read.user.identityProvider = "email"
  /\ ~last.read.user.twoFactorEnabled
  /\ Truthy(last.read.user.twoFactorSecret)
  /\ Truthy(key)
  /\ Len(symmetricDecrypt(last.read.user.twoFactorSecret, key)) = SecretLength

(***************************************************************************)
(* Properties                                                              *)
(***************************************************************************)
\* C1: with the calls executed atomically from records without two-factor
\* data, an enabled record always holds a secret, and the secret decrypts to
\* exactly 32 characters.
C1_EnabledHasSecretOf32 ==
  \A u \in DOMAIN store :
    store[u].twoFactorEnabled =>
      /\ store[u].twoFactorSecret # Null
      /\ Len(symmetricDecrypt(store[u].twoFactorSecret, key)) = 32

C1_Witness ==
  /\ Called("enable")
  /\ last.result = "ok"
  /\ Target.twoFactorEnabled

\* C2: with the findUnique and the update of the calls interleaved, an enabled
\* record always holds a secret.
C2_InterleavedEnabledHasSecret ==
  \A u \in DOMAIN store :
    store[u].twoFactorEnabled => store[u].twoFactorSecret # Null

\* C3 as stated: disable with a password that does not match the stored hash
\* fails with "Incorrect password" and leaves the record as it was, whatever
\* the state of the record.
C3_WrongPasswordAlwaysIncorrectPassword ==
  (Called("disable") /\ WrongPasswordGiven) =>
    /\ last.result = "Incorrect password"
    /\ Target = last.read.user

\* C3 amended: disable with a password that does not match the stored hash
\* always fails and leaves the record as it was, whatever code and backupCode
\* are; the error is "Incorrect password" when the record read is enabled with
\* identityProvider email, and the error of the earlier guard otherwise.
C3_WrongPasswordFails ==
  (Called("disable") /\ WrongPasswordGiven) =>
    /\ Target = last.read.user
    /\ last.result =
         IF ~last.read.user.twoFactorEnabled
           THEN "Two factor authentication is not enabled"
         ELSE IF last.read.user.identityProvider # "email"
           THEN "Third party login is already enabled"
         ELSE "Incorrect password"

C3_Witness ==
  /\ Called("disable")
  /\ WrongPasswordGiven
  /\ last.read.user.twoFactorEnabled
  /\ totpAuthenticatorCheck(last.code,
                            symmetricDecrypt(last.read.user.twoFactorSecret, key))
  /\ last.result = "Incorrect password"

\* C4: a call makes at most one update, the update is its last access to the
\* store and is made only when no guard threw; a call in which a guard threw
\* leaves the store as it was.
C4_NoPartialWrites ==
  [][/\ Cardinality(Positions("update")') <= 1
     /\ \A m \in Positions("update")' : \A n \in StoreAccesses' : n <= m
     /\ Positions("update")' # {} => last'.result \notin CheckErrors
     /\ last'.result \in CheckErrors => store' = store]_vars

C4_Witness ==
  /\ Called("disable")
  /\ last.result = "Incorrect backup code"
  /\ Target.twoFactorEnabled
  /\ Target = last.read.user

\* C5: after a successful setup, whatever state the record was in, the record
\* is not enabled and holds the secret and the backup codes the call generated.
C5_SetupStoresFreshAndRevokes ==
  (Called("setup") /\ last.result = "ok") =>
    /\ Target.twoFactorEnabled = FALSE
    /\ Target.twoFactorSecret # Null
    /\ Target.backupCodes # Null
    /\ symmetricDecrypt(Target.twoFactorSecret, key)
         = generateSecret(SecretBytes, last.gen)
    /\ JSONParse(symmetricDecrypt(Target.backupCodes, key))
         = generateBackupCodes(last.gen)

C5_Witness ==
  /\ Called("setup")
  /\ last.result = "ok"
  /\ last.read.user.twoFactorEnabled
  /\ last.read.user.twoFactorSecret # Target.twoFactorSecret
  /\ ~Target.twoFactorEnabled

\* C6: after a successful disable, by backup code or by TOTP code, the record
\* holds no backup codes and no secret and is not enabled, and the profile
\* cache of the user was invalidated.
C6_DisableClearsAll ==
  (Called("disable") /\ last.result = "ok") =>
    /\ Target.backupCodes = Null
    /\ Target.twoFactorSecret = Null
    /\ Target.twoFactorEnabled = FALSE
    /\ InvalidatedAfterUpdate

C6_Witness ==
  /\ Called("disable")
  /\ last.result = "ok"
  /\ ~Truthy(last.backupCode)
  /\ last.read.user.backupCodes # Null
  /\ Target.backupCodes = Null

\* C7: enable on a record in PendingSetup with a code the TOTP check accepts
\* succeeds, leaves the record enabled and invalidates the profile cache of the
\* user after the update.
C7_EnableSucceedsFromPending ==
  (/\ Called("enable")
   /\ ReadPendingSetup
   /\ totpAuthenticatorCheck(last.code,
                             symmetricDecrypt(last.read.user.twoFactorSecret, key)))
    => /\ last.result = "ok"
       /\ Target.twoFactorEnabled
       /\ InvalidatedAfterUpdate

C7_Witness ==
  /\ Called("enable")
  /\ ReadPendingSetup
  /\ last.result = "ok"
  /\ Target.twoFactorEnabled

\* C8: twoFactorEnabled goes from false to true only in a successful enable for
\* that user, which read a record with identityProvider email, a password
\* hash, twoFactorEnabled false and a secret.
C8_EnabledOnlyThroughEnable ==
  [][\A u \in DOMAIN store :
       (~store[u].twoFactorEnabled /\ store'[u].twoFactorEnabled) =>
         /\ last'.op = "enable"
         /\ last'.userId = u
         /\ last'.result = "ok"
         /\ last'.read.user = store[u]
         /\ store[u].identityProvider = "email"
         /\ store[u].password # Null
         /\ store[u].twoFactorSecret # Null]_vars

C8_Witness ==
  /\ Called("enable")
  /\ last.result = "ok"
  /\ ~last.read.user.twoFactorEnabled
  /\ last.read.user.twoFactorSecret # Null
  /\ Target.twoFactorEnabled

\* C9: an enable right after a successful enable for the same user with the
\* same code fails with "Two factor authentication is already enabled", and
\* the record stays enabled with its secret and backup codes.
C9_ReEnableFails ==
  (/\ prev.op = "enable"
   /\ Called("enable")
   /\ last.userId = prev.userId
   /\ last.code = prev.code)
    => /\ last.result = "Two factor authentication is already enabled"
       /\ Target = last.read.user
       /\ Target.twoFactorEnabled

C9_Witness ==
  /\ prev.op = "enable"
  /\ Called("enable")
  /\ last.userId = prev.userId
  /\ last.code = prev.code
  /\ last.result = "Two factor authentication is already enabled"

\* C10 as stated: backup codes are stored exactly when a setup has succeeded
\* with no successful disable after it, which is exactly when a secret is
\* stored.
C10_BackupCodesIffSuccessfulSetup ==
  \A u \in DOMAIN store :
    /\ (store[u].backupCodes # Null) <=> setupLive[u]
    /\ (store[u].backupCodes # Null) <=> (store[u].twoFactorSecret # Null)

\* C10, what the code keeps instead: backup codes are stored exactly when a
\* setup has made its update (whether or not the call then returned) with no
\* successful disable after it, which is exactly when a secret is stored.
C10_BackupCodesIffSetupStored ==
  \A u \in DOMAIN store :
    /\ (store[u].backupCodes # Null) <=> setupStored[u]
    /\ (store[u].backupCodes # Null) <=> (store[u].twoFactorSecret # Null)

\* C10: the state that separates the two: codes stored by a setup that failed
\* after its update
C10_StoredByFailedSetup ==
  \E u \in DOMAIN store :
    /\ store[u].backupCodes # Null
    /\ setupStored[u]
    /\ ~setupLive[u]

\* the last call is a disable that passed the guards on the record and the
\* password, and presents a backup code
ReachedBackupCodeBranch ==
  /\ Called("disable")
  /\ last.read.found
  /\ Truthy(last.read.user.password)
  /\ last.read.user.twoFactorEnabled
  /\ last.read.user.identityProvider = "email"
  /\ verifyPassword(last.password, last.read.user.password)
  /\ Truthy(last.backupCode)

\* the last call presents a backup code of a setup that a disable has retired,
\* to a record that a later setup and enable have enabled with other codes
PresentsRetiredBackupCode ==
  /\ ReachedBackupCodeBranch
  /\ Truthy(key)
  /\ Truthy(last.read.user.backupCodes)
  /\ \E g \in retired :
       \E n \in 1..BackupCodeCount :
         generateBackupCodes(g)[n] = replaceAll(last.backupCode, "-")
  /\ \A g \in issuedBy(last.read.user, key) :
       \A n \in 1..BackupCodeCount :
         generateBackupCodes(g)[n] # replaceAll(last.backupCode, "-")

\* C11: after a successful disable, a fresh successful setup and a successful
\* enable, a disable with the correct password that presents a backup code of
\* the earlier setup, not among the new codes, fails with the
\* incorrect-backup-code error and leaves the record enabled.
C11_RetiredBackupCodeRejected ==
  PresentsRetiredBackupCode =>
    /\ last.result = "Incorrect backup code"
    /\ Target = last.read.user
    /\ Target.twoFactorEnabled

C11_Witness ==
  /\ PresentsRetiredBackupCode
  /\ prev.op = "enable"
  /\ setupLive[last.userId]
  /\ last.result = "Incorrect backup code"
  /\ Target.twoFactorEnabled

\* the characters of the backup code presented that are not hyphens
Unhyphenated == SelectSeq(last.backupCode, LAMBDA ch : ch # "-")

\* the codes of the list the record read holds
StoredCodes ==
  {generateBackupCodes(g)[n] :
     g \in issuedBy(last.read.user, key), n \in 1..BackupCodeCount}

\* C12: the backup-code branch of disable accepts the code exactly when the
\* input without its hyphens is one of the codes of the stored list: a stored
\* code is accepted with hyphens inserted anywhere, and an input whose
\* unhyphenated form is not in the list (one that differs by a space or by
\* letter case too) is rejected with the incorrect-backup-code error.
C12_AcceptsExactlyUnhyphenatedMembers ==
  (ReachedBackupCodeBranch /\ Truthy(key) /\ Truthy(last.read.user.backupCodes)) =>
    /\ Unhyphenated \in StoredCodes => last.result = "ok"
    /\ Unhyphenated \notin StoredCodes => last.result = "Incorrect backup code"

C12_Witness ==
  /\ ReachedBackupCodeBranch
  /\ Len(last.backupCode) > Len(Unhyphenated) + 1
  /\ Unhyphenated \in StoredCodes
  /\ last.result = "ok"

\* an input that differs from a stored code by letter case only is rejected
C12_WitnessRejected ==
  /\ ReachedBackupCodeBranch
  /\ Unhyphenated \notin StoredCodes
  /\ Unhyphenated \in {toUpperCase(c) : c \in StoredCodes}
  /\ last.result = "Incorrect backup code"

\* the last call made an update
Updated == Positions("update") # {}

\* the error of the first guard of setup that the record read and the password
\* fail, "pass" when they fail none
SetupGuardError ==
  IF ~last.read.found THEN "User not found"
  ELSE IF ~Truthy(last.read.user.password) THEN "User does not have a password set"
  ELSE IF last.read.user.identityProvider # "email"
    THEN "Third party login is already enabled"
  ELSE IF ~verifyPassword(last.password, last.read.user.password)
    THEN "Incorrect password"
  ELSE "pass"

\* C13 as claimed: setup fails with the error of the first of the four guards
\* (user exists, has a password hash, signs in by e-mail, password matches) that
\* does not hold, and a user satisfying all four always gets the store update.
C13_SetupGuardsThenAlwaysUpdate ==
  last.op = "setup" =>
    IF SetupGuardError # "pass"
    THEN last.result = SetupGuardError /\ ~Updated
    ELSE Updated

\* C13, amended: a user satisfying all four gets the store update when the
\* encryption key is configured; without the key the call fails in the cipher
\* and makes no update.
C13_SetupGuardsThenUpdateIfKey ==
  last.op = "setup" =>
    IF SetupGuardError # "pass"
    THEN last.result = SetupGuardError /\ ~Updated
    ELSE IF Truthy(key)
    THEN Updated /\ last.result \in {"ok", "qrcode.toDataURL failed"}
    ELSE ~Updated /\ last.result = "symmetricEncrypt failed"

C13_Witness ==
  /\ Called("setup")
  /\ SetupGuardError = "pass"
  /\ Updated
  /\ ~Target.twoFactorEnabled
  /\ Truthy(Target.twoFactorSecret)

\* two guards fail at once, and the error is the one of the earlier guard
C13_WitnessOrder ==
  /\ Called("setup")
  /\ ~Truthy(last.read.user.password)
  /\ last.read.user.identityProvider # "email"
  /\ last.result = "User does not have a password set"

\* the errors of the eight guards of enable, in the order of the guards
EnableErrors ==
  <<"User not found", "User does not have a password set",
    "Third party login is already enabled",
    "Two factor authentication is already enabled",
    "Two factor setup has not been completed", "Encryption key not found",
    "Invalid secret", "Invalid code">>

\* the guards of enable that the record read, the key and the code fail
EnableGuardsFailed ==
  {n \in 1..8 :
     CASE n = 1 -> ~last.read.found
       [] n = 2 -> last.read.user.password = Null
       [] n = 3 -> last.read.user.identityProvider # "email"
       [] n = 4 -> last.read.user.twoFactorEnabled
       [] n = 5 -> last.read.user.twoFactorSecret = Null
       [] n = 6 -> key = Undefined
       [] n = 7 -> /\ last.read.user.twoFactorSecret # Null
                   /\ Len(symmetricDecrypt(last.read.user.twoFactorSecret, key)) # 32
       [] n = 8 -> \/ last.read.user.twoFactorSecret = Null
                   \/ ~totpAuthenticatorCheck(
                         last.code, symmetricDecrypt(last.read.user.twoFactorSecret, key))}

FirstOf(S) == CHOOSE n \in S : \A m \in S : n <= m

\* C14: an enable whose record, key or code fail one of the eight guards
\* (user missing, no password hash, provider not email, already enabled, secret
\* absent, key not configured, decrypted secret not of 32 characters, code
\* rejected) throws the error of the first guard failed and makes no update, and
\* the errors of the eight guards are eight different errors.
C14_EnableGuardErrorsDistinct ==
  /\ Cardinality({EnableErrors[n] : n \in 1..8}) = 8
  /\ (last.op = "enable" /\ EnableGuardsFailed # {}) =>
       /\ last.result = EnableErrors[FirstOf(EnableGuardsFailed)]
       /\ ~Updated
       /\ last.read.found => Target = last.read.user

\* the stored secret decrypts to fewer than 32 characters
C14_Witness ==
  /\ Called("enable")
  /\ FirstOf(EnableGuardsFailed \cup {8}) = 7
  /\ last.result = "Invalid secret"
  /\ Target = last.read.user

\* the value the last call returned holds the secret and the backup codes of
\* the draw g
ReturnsPlaintextOf(g) ==
  /\ last.returned.secret = generateSecret(SecretBytes, g)
  /\ last.returned.backupCodes = generateBackupCodes(g)
  /\ keyUriSecretOf(last.returned.keyUri) = generateSecret(SecretBytes, g)
  /\ last.returned.dataUri = toDataURL(last.returned.keyUri)

\* the value the last call returned holds no secret, key URI, image or codes
ReturnsNoPlaintext ==
  /\ last.returned.secret = <<>>
  /\ last.returned.keyUri = <<>>
  /\ last.returned.dataUri = <<>>
  /\ last.returned.backupCodes = <<>>

\* C15: every setup that performs the store update returns the secret, key
\* URI, image and backup codes it persisted to its caller (also when a later
\* step of the call fails), and no enable or disable returns a secret or codes.
C15_PersistedIsReturned ==
  /\ (last.op = "setup" /\ Updated) => ReturnsPlaintextOf(last.gen)
  /\ (last.op = "setup" /\ ~Updated) => ReturnsNoPlaintext
  /\ last.op \in {"enable", "disable"} => ReturnsNoPlaintext

\* a setup stored a secret and codes and returned nothing
C15_PersistedNotReturned ==
  /\ Called("setup")
  /\ Updated
  /\ ReturnsNoPlaintext
  /\ symmetricDecrypt(Target.twoFactorSecret, key) = generateSecret(SecretBytes, last.gen)

\* the last call is a setup that returned
SetupSucceeded == Called("setup") /\ last.result = "ok"

\* what the store holds for the user of the last call decrypts to what the
\* call returned: a secret of 32 characters, and 10 codes of 10 hex digits
StoredRoundTripsToReturned ==
  /\ symmetricDecrypt(Target.twoFactorSecret, key) = last.returned.secret
  /\ Len(last.returned.secret) = 32
  /\ JSONParse(symmetricDecrypt(Target.backupCodes, key)) = last.returned.backupCodes
  /\ Len(last.returned.backupCodes) = 10
  /\ \A n \in 1..Len(last.returned.backupCodes) :
       /\ Len(last.returned.backupCodes[n]) = 10
       /\ \A m \in 1..10 :
            last.returned.backupCodes[n][m] \in
              {"0", "1", "2", "3", "4", "5", "6", "7", "8", "9",
               "a", "b", "c", "d", "e", "f"}

\* C16: after every successful setup the stored secret decrypts to the secret
\* returned, of exactly 32 characters, and the stored backup codes decrypt and
\* parse to the list returned, exactly 10 codes of 10 hexadecimal characters in
\* the same order; an enable called directly after a successful setup does not
\* fail with "Invalid secret".
C16_SetupRoundTrips ==
  SetupSucceeded =>
    /\ StoredRoundTripsToReturned
    /\ \A code \in Codes :
         enableRun(findUnique(store, last.userId), last.userId, code, key).result
           # "Invalid secret"

C16_Witness ==
  /\ SetupSucceeded
  /\ StoredRoundTripsToReturned
  /\ last.returned.secret # <<>>

\* the last call is a disable that passed the guards on the record and the
\* password, and presents neither a backup code nor a code
DisableWithoutSecondFactor ==
  /\ Called("disable")
  /\ last.read.found
  /\ last.read.user.password # Null
  /\ last.read.user.twoFactorEnabled
  /\ last.read.user.identityProvider = "email"
  /\ verifyPassword(last.password, last.read.user.password)
  /\ last.backupCode \in {Undefined, <<>>}
  /\ last.code \in {Undefined, <<>>}

\* C17: a disable on an enabled record of an e-mail user, with the matching
\* password, without backup code and without code, fails with "Second factor
\* required", and the record stays enabled with its secret and backup codes.
C17_SecondFactorRequired ==
  DisableWithoutSecondFactor =>
    /\ last.result = "Second factor required"
    /\ ~Updated
    /\ Target = last.read.user
    /\ Target.twoFactorEnabled

C17_Witness ==
  /\ DisableWithoutSecondFactor
  /\ last.result = "Second factor required"
  /\ Target.twoFactorEnabled
  /\ Target.twoFactorSecret # Null
  /\ Target.backupCodes # Null

NonEmpty(text) == text # Null /\ text # Undefined /\ text # <<>>

\* C18: the account label of the key URI a setup returns is the e-mail address
\* of the user when it is not empty, else the name when it is not empty, else
\* the user id; the issuer is "Formbricks", and the secret of the URI is the
\* secret the call persisted.
C18_KeyUriLabelIssuerSecret ==
  SetupSucceeded =>
    /\ keyUriLabel(last.returned.keyUri) =
         (IF NonEmpty(last.read.user.email) THEN last.read.user.email
          ELSE IF NonEmpty(last.read.user.name) THEN last.read.user.name
          ELSE idToString(last.userId))
    /\ keyUriIssuer(last.returned.keyUri) =
         <<"F", "o", "r", "m", "b", "r", "i", "c", "k", "s">>
    /\ keyUriSecretOf(last.returned.keyUri) =
         symmetricDecrypt(Target.twoFactorSecret, key)

\* a user without e-mail address: the label is the name
C18_Witness ==
  /\ SetupSucceeded
  /\ ~NonEmpty(last.read.user.email)
  /\ NonEmpty(last.read.user.name)
  /\ keyUriLabel(last.returned.keyUri) = last.read.user.name

\* a user without e-mail address and name: the label is the user id
C18_WitnessId ==
  /\ SetupSucceeded
  /\ ~NonEmpty(last.read.user.email)
  /\ ~NonEmpty(last.read.user.name)
  /\ keyUriLabel(last.returned.keyUri) = <<"u", "1">>

\* C19: with the findUnique and the update of the calls interleaved, a backup
\* code of a setup authorises at most one successful disable: no two disables
\* that present the same backup code of the same setup both make their update.
C19_BackupCodeSingleUse == respent = {}

\* the backup code of the last call, without its hyphens, is in the list the
\* record read holds
BackupCodeVerified ==
  /\ last.backupCode \notin {Undefined, <<>>}
  /\ key # Undefined
  /\ last.read.user.backupCodes # Null
  /\ \E n \in 1..Len(JSONParse(symmetricDecrypt(last.read.user.backupCodes, key))) :
       JSONParse(symmetricDecrypt(last.read.user.backupCodes, key))[n] = Unhyphenated

\* the code of the last call is accepted for the secret of 32 characters the
\* record read holds
TotpVerified ==
  /\ last.code \notin {Undefined, <<>>}
  /\ key # Undefined
  /\ last.read.user.twoFactorSecret # Null
  /\ Len(symmetricDecrypt(last.read.user.twoFactorSecret, key)) = 32
  /\ totpAuthenticatorCheck(last.code,
                            symmetricDecrypt(last.read.user.twoFactorSecret, key))

\* C20: a disable makes its update only if, in that call, the password matched
\* the hash of the record read and a second factor was verified against that
\* record: the backup code without hyphens is in the decrypted list, or the
\* code is accepted for the decrypted secret of 32 characters.
C20_UpdateOnlyAfterBothFactors ==
  (last.op = "disable" /\ Updated) =>
    /\ last.read.found
    /\ last.read.user.password # Null
    /\ verifyPassword(last.password, last.read.user.password)
    /\ BackupCodeVerified \/ TotpVerified

C20_Witness ==
  /\ Called("disable")
  /\ Updated
  /\ TotpVerified
  /\ ~BackupCodeVerified
  /\ ~Target.twoFactorEnabled

C20_WitnessBackupCode ==
  /\ Called("disable")
  /\ Updated
  /\ BackupCodeVerified
  /\ ~TotpVerified

\* the last call is a disable that passed the guards on the record and the
\* password, on a record that holds a secret of 32 characters and backup codes
ReachedSecondFactor ==
  /\ Called("disable")
  /\ last.read.found
  /\ last.read.user.password # Null
  /\ last.read.user.twoFactorEnabled
  /\ last.read.user.identityProvider = "email"
  /\ verifyPassword(last.password, last.read.user.password)
  /\ key # Undefined
  /\ last.read.user.backupCodes # Null
  /\ last.read.user.twoFactorSecret # Null
  /\ Len(symmetricDecrypt(last.read.user.twoFactorSecret, key)) = 32

\* C21: the branch of disable is chosen by backupCode alone.  With a backup
\* code that is not empty the code is not consulted: the call succeeds when
\* the backup code is in the stored list, whatever the code, and fails with
\* "Incorrect backup code" when it is not, even with a valid code.  An empty
\* backup code is one not supplied: the call takes the TOTP branch.
C21_BranchChosenByBackupCode ==
  ReachedSecondFactor =>
    IF last.backupCode \notin {Undefined, <<>>}
    THEN last.result = (IF BackupCodeVerified THEN "ok" ELSE "Incorrect backup code")
    ELSE last.result = (IF last.code \in {Undefined, <<>>} THEN "Second factor required"
                        ELSE IF TotpVerified THEN "ok"
                        ELSE "Invalid code")

\* a backup code that is not in the list, with a valid code
C21_Witness ==
  /\ ReachedSecondFactor
  /\ last.backupCode \notin {Undefined, <<>>}
  /\ ~BackupCodeVerified
  /\ TotpVerified
  /\ last.result = "Incorrect backup code"
  /\ Target.twoFactorEnabled

\* a backup code of the list, with a code that is not valid
C21_WitnessInvalidCode ==
  /\ ReachedSecondFactor
  /\ BackupCodeVerified
  /\ last.code = WrongCode
  /\ last.result = "ok"

\* the empty backup code, with a valid code
C21_WitnessEmptyBackupCode ==
  /\ ReachedSecondFactor
  /\ last.backupCode = <<>>
  /\ TotpVerified
  /\ last.result = "ok"

\* the last call is a disable that read a record that is not enabled
DisableOfNotEnabled ==
  /\ Called("disable")
  /\ last.read.found
  /\ ~last.read.user.twoFactorEnabled

\* C22 as claimed: a disable on a record that is not enabled fails with "Two
\* factor authentication is not enabled", whatever credentials are supplied,
\* and leaves the record, with a pending secret and pending codes, as it is.
C22_NotEnabledAlwaysNotEnabledError ==
  DisableOfNotEnabled =>
    /\ last.result = "Two factor authentication is not enabled"
    /\ ~Updated
    /\ Target = last.read.user

\* C22, amended: a disable on a record that is not enabled fails, whatever
\* credentials are supplied, and leaves the record as it is; the error is "Two
\* factor authentication is not enabled" when the record has a password hash,
\* and "User does not have a password set" when it has none.
C22_NotEnabledFailsUnchanged ==
  DisableOfNotEnabled =>
    /\ last.result = (IF last.read.user.password = Null
                       THEN "User does not have a password set"
                       ELSE "Two factor authentication is not enabled")
    /\ ~Updated
    /\ Target = last.read.user

\* a pending setup, the matching password and a valid code
C22_Witness ==
  /\ DisableOfNotEnabled
  /\ last.read.user.twoFactorSecret # Null
  /\ verifyPassword(last.password, last.read.user.password)
  /\ key # Undefined
  /\ totpAuthenticatorCheck(last.code,
                            symmetricDecrypt(last.read.user.twoFactorSecret, key))
  /\ last.result = "Two factor authentication is not enabled"
  /\ Target.twoFactorSecret # Null
  /\ Target.backupCodes # Null

\* C23: with the findUnique and the update of the calls interleaved, the
\* secret of an enabled record is the secret against which the code of the
\* enable that enabled it was verified, also when a setup of the same user
\* makes its update between the findUnique and the update of the enable.
C23_EnabledSecretWasVerified ==
  \A u \in DOMAIN store :
    (store[u].twoFactorEnabled /\ store[u].twoFactorSecret # Null) =>
      symmetricDecrypt(store[u].twoFactorSecret, key) = verified[u]

\* the last call read an enabled record and left it not enabled
RemovedProtection ==
  /\ last.userId \in DOMAIN store
  /\ last.read.found
  /\ last.read.user.twoFactorEnabled
  /\ ~Target.twoFactorEnabled

\* C24: with the calls executed atomically, a record goes from enabled to not
\* enabled only through a call in which a TOTP code or a backup code of the
\* enabled setup was verified; the password alone does not turn 2FA off.
C24_ProtectionRemovedOnlyWithSecondFactor ==
  RemovedProtection => (BackupCodeVerified \/ TotpVerified)

\* a setup, which takes the password only, left an enabled record not enabled
C24_RemovedBySetup ==
  /\ RemovedProtection
  /\ last.op = "setup"
  /\ last.code = Undefined
  /\ last.backupCode = Undefined

\* the last call returned and changed the stored twoFactorEnabled of its user
ChangedEnabled ==
  /\ last.userId \in DOMAIN store
  /\ last.read.found
  /\ last.result = "ok"
  /\ last.read.user.twoFactorEnabled # Target.twoFactorEnabled

\* C25: every call that returns and has changed the stored twoFactorEnabled of
\* its user has invalidated the profile cache of that user after its update,
\* and a call that fails invalidates nothing.
C25_EnabledChangeInvalidatesCache ==
  /\ ChangedEnabled => InvalidatedAfterUpdate
  /\ last.result # "ok" => Positions("revalidateTag") = {}

\* a setup returned, changed twoFactorEnabled and invalidated nothing
C25_SetupWithoutInvalidation ==
  /\ ChangedEnabled
  /\ last.op = "setup"
  /\ Positions("revalidateTag") = {}

\* the call in flight that makes its update in this step
Writes(i) == calls[i] # Idle /\ calls'[i] = Idle

\* the frame of a step: what it leaves as it is in the record of user u
FrameOf(u) ==
  /\ store'[u].password = store[u].password
  /\ store'[u].identityProvider = store[u].identityProvider
  /\ store'[u].email = store[u].email
  /\ store'[u].name = store[u].name
  /\ store'[u] # store[u] =>
       \E i \in 1..MaxInFlight : Writes(i) /\ calls[i].userId = u
  /\ \A i \in 1..MaxInFlight :
       (Writes(i) /\ calls[i].op = "enable") =>
         /\ store'[u].twoFactorSecret = store[u].twoFactorSecret
         /\ store'[u].backupCodes = store[u].backupCodes

\* C26: with the findUnique and the update of the calls interleaved, the
\* update of an enable changes only twoFactorEnabled and leaves the secret and
\* the backup codes as the store holds them when it is made; no update changes
\* the password hash, the identity provider or the profile, and no update
\* changes the record of a user other than the userId of its call.
C26_FrameOfWrites ==
  [][DOMAIN store' = DOMAIN store /\ \A u \in DOMAIN store : FrameOf(u)]_vars

\* an enable has made its update on a record with a secret and backup codes
C26_Witness ==
  \E u \in DOMAIN store :
    /\ store[u].twoFactorEnabled
    /\ verified[u] # <<>>
    /\ store[u].twoFactorSecret # Null
    /\ store[u].backupCodes # Null

\* the segment that was passed as prop when the connector was clicked
ClickedSegment == click.before[click.prop]

\* the connector opposite to the one clicked
ClickedOpposite == IF click.connector = "and" THEN "or" ELSE "and"

\* C27: a click on the connector of a filter publishes exactly one segment, a
\* new object equal to the segment passed as prop with toggleFilterConnector
\* applied for the filter with the opposite connector ("or" for "and", "and"
\* for anything else), so that a second click on the same connector brings the
\* first connector back; a click on the connector of a first filter ("Where")
\* publishes nothing; and no click changes the object passed as prop.
C27_ClickPublishesToggledClone ==
  click.n > 0 =>
    /\ \A k \in 1..Len(click.before) : objects[k] = click.before[k]
    /\ IF click.connector = NoConnector
       THEN /\ Len(published) = click.publishedBefore
            /\ objects = click.before
            /\ userSegment = click.prop
       ELSE /\ Len(published) = click.publishedBefore + 1
            /\ Len(objects) = Len(click.before) + 1
            /\ published[Len(published)] = Len(objects)
            /\ userSegment = Len(objects)
            /\ objects[userSegment] =
                 [filters |-> toggleFilterConnector(ClickedSegment.filters,
                                                    click.filterId, ClickedOpposite)]
            /\ filtersOf(objects[userSegment].filters) =
                 {<<fc[1], IF fc[1] = click.filterId THEN ClickedOpposite ELSE fc[2]>> :
                    fc \in filtersOf(ClickedSegment.filters)}
            /\ click.previous.filterId = click.filterId =>
                 /\ connectorOf(objects[userSegment], click.filterId)
                      = click.previous.connector
                 /\ objects[userSegment] = objects[click.prop - 1]

\* two clicks on the same connector
C27_Witness ==
  /\ click.n >= 2
  /\ click.connector # NoConnector
  /\ click.previous.filterId = click.filterId
  /\ Len(published) >= 2
  /\ connectorOf(objects[userSegment], click.filterId) # click.connector
  /\ objects[click.prop] = click.before[click.prop]

\* a click on "Where"
C27_WitnessWhere ==
  /\ click.n > 0
  /\ click.connector = NoConnector
  /\ Len(published) = click.publishedBefore

====
